---- MODULE Spec2Model ----
(***************************************************************************)
(* StreamBox: the purchase handler, the streaming gate, the upload         *)
(* registrar (server/routes.ts over server/storage.ts) and the             *)
(* StreamBoxPayment contract (server/filecoinPay.ts, Solidity part).       *)
(*                                                                         *)
(* Handlers are split at the awaits on external services (ledger, content  *)
(* store); MemStorage calls run to completion inside one step, as the      *)
(* bodies of its async methods contain no await.                           *)
(***************************************************************************)
EXTENDS Integers, Sequences, FiniteSets, TLC

VARIABLES
    videos,          \* MemStorage.videos: id -> Video
    purchases,       \* MemStorage.purchases in insertion order (a JS Map)
    synapse,         \* SynapseService connection: "down" | "partial" | "up"
    synapseVersion,  \* which verifyContentPayment the deployment carries
    routesVersion,   \* which registerRoutes the deployment carries
    creatorWallet,   \* FilecoinPayService.getCreatorAddress()
    reqs,            \* requests received, in order of arrival
    subscriptions,   \* MemStorage.subscriptions in insertion order
    cancels,         \* cancelSubscription calls, in order of the call
    rangeReq,        \* stream range handling: retrieved length and Range header
    rangeRes,        \* stream range handling: the response written
    videoCreators,   \* StreamBoxPayment.videoCreators
    videoPrices,     \* StreamBoxPayment.videoPrices
    creatorEarnings, \* StreamBoxPayment.creatorEarnings
    chainPurchases,  \* StreamBoxPayment.purchases, by (buyer, videoId, timestamp)
    balances,        \* native-token balance of every address
    blockTime,       \* block.timestamp
    lastCall,        \* the last contract call and the transfers it made
    totals           \* sums over the successful purchaseVideo calls

subsVars == <<subscriptions, cancels>>
serverVars == <<videos, purchases, synapse, synapseVersion, routesVersion,
                creatorWallet, reqs, subsVars>>
rangeVars == <<rangeReq, rangeRes>>
chainVars == <<videoCreators, videoPrices, creatorEarnings, chainPurchases,
               balances, blockTime, lastCall, totals>>

vars == <<serverVars, rangeVars, chainVars>>

NULL == "null"

\* A JS number is <<n>>; NaN is the empty tuple.
NaN == <<>>
Num(n) == <<n>>
IsNum(x) == Len(x) = 1

----------------------------------------------------------------------------
(* Bounds *)

\* Requests the server receives in one run.
MaxRequests == 2

----------------------------------------------------------------------------
(* Inputs *)

Buyers == {"0xB1", "0xB2"}
PlatformAddress == "0xC0"

\* Transaction references a caller can submit, and what the external ledger
\* holds for each one (the ledger is outside the server).
TxRefs == {"0xPaid", "0xLow"}

\* The same with an overpaying transaction and a reference that names no
\* transaction.
LedgerRefs == TxRefs \cup {"0xOver", "0xNone"}

LedgerTx(t) ==
    CASE t = "0xPaid" -> [found |-> TRUE, confirmed |-> TRUE,
                          to |-> PlatformAddress, amount |-> 599]
      [] t = "0xLow"  -> [found |-> TRUE, confirmed |-> TRUE,
                          to |-> PlatformAddress, amount |-> 100]
      [] t = "0xOver" -> [found |-> TRUE, confirmed |-> TRUE,
                          to |-> PlatformAddress, amount |-> 700]
      [] OTHER        -> [found |-> FALSE, confirmed |-> FALSE,
                          to |-> NULL, amount |-> 0]

PaymentMethods == {NULL, "usdfc"}

\* Token balances the payments service can report for a buyer (base units).
Balances == {0, 10}

----------------------------------------------------------------------------
(* shared/schema + MemStorage *)

\* A video without the filecoinData property.
NoFilecoinData == [pieceCid |-> NULL, commP |-> NULL]

SeedVideos ==
    [v \in {"video1", "video4"} |->
        IF v = "video1"
        THEN [id |-> "video1", videoUrl |-> "/objects/uploads/video1.mp4",
              price |-> "5.99", pricingType |-> "payper", views |-> 12500,
              filecoinHash |-> "0x8a2b", filecoinData |-> NoFilecoinData,
              creatorId |-> "user2"]
        ELSE [id |-> "video4", videoUrl |-> "/objects/uploads/video4.mp4",
              price |-> "0", pricingType |-> "free", views |-> 22300,
              filecoinHash |-> "0xb5d7", filecoinData |-> NoFilecoinData,
              creatorId |-> "user1"]]

\* Ids randomUUID() hands to createVideo.
NewVideoIds == {"uuid-v1"}

\* Bodies POST /api/videos accepts (insertVideoSchema).
NewVideoInputs ==
    {[price |-> "5", pricingType |-> "payper", creatorId |-> "user1",
      videoUrl |-> "/objects/uploads/new.mp4"],
     [price |-> "5", pricingType |-> "subscription", creatorId |-> "user1",
      videoUrl |-> "/objects/uploads/new.mp4"]}

VideoIds == DOMAIN SeedVideos \cup NewVideoIds

\* parseFloat(price) in hundredths; NaN for a missing price.
ParseFloat(price) ==
    CASE price = "5.99" -> Num(599)
      [] price = "5"    -> Num(500)
      [] price = "0"    -> Num(0)
      [] OTHER          -> NaN

\* BigInt(price): a SyntaxError (NaN here) unless the string is an integer.
BigIntOf(price) ==
    CASE price = "5" -> Num(5)
      [] price = "0" -> Num(0)
      [] OTHER       -> NaN

\* getVideo(id) is defined exactly for the ids of the Map.
HasVideo(id) == id \in DOMAIN videos

\* createVideo: the spread of the input, then id, views and filecoinHash
\* overridden.  filecoinData is no column of the schema: it is kept when the
\* caller's object carries it (upload-synapse) and absent otherwise.
CreateVideoRecord(id, in) ==
    [id |-> id, videoUrl |-> in.videoUrl,
     price |-> IF in.price = "" THEN NULL ELSE in.price,
     pricingType |-> IF in.pricingType = "" THEN "free" ELSE in.pricingType,
     views |-> 0, filecoinHash |-> NULL,
     filecoinData |-> IF "filecoinData" \in DOMAIN in
                      THEN in.filecoinData ELSE NoFilecoinData,
     creatorId |-> in.creatorId]

\* Array.from(purchases.values()).find(...): first match in insertion order.
\* The result is the row's position, 0 for undefined.
PurchaseRows(userId, videoId) ==
    {i \in 1..Len(purchases) :
        /\ purchases[i].userId = userId
        /\ purchases[i].videoId = videoId}

GetPurchase(userId, videoId) ==
    LET hits == PurchaseRows(userId, videoId)
    IN IF hits = {} THEN 0
       ELSE CHOOSE i \in hits : \A j \in hits : i <= j

\* The stream handler's test for paid content:
\* pricingType === 'payper' && parseFloat(price || '0') > 0.
RequiresPurchase(v) ==
    LET p == ParseFloat(IF v.price \in {NULL, ""} THEN "0" ELSE v.price)
    IN v.pricingType = "payper" /\ IsNum(p) /\ p[1] > 0

\* The stream handler's access decision for an existing video.
MutAccessRequiresPurchase(buyer, videoId) ==
    GetPurchase(buyer, videoId) # 0

AccessGranted(buyer, videoId) ==
    RequiresPurchase(videos[videoId]) => GetPurchase(buyer, videoId) # 0

\* createPurchase: a fresh randomUUID key, so the Map only ever grows.
\* The key is modelled by the row's position.
MutCreatePurchaseOverwrite(ins) ==
    <<[id |-> 1, userId |-> ins.userId, videoId |-> ins.videoId,
       amount |-> ins.amount, transactionHash |-> ins.transactionHash]>>

CreatePurchase(ins) ==
    Append(purchases,
           [id |-> Len(purchases) + 1, userId |-> ins.userId,
            videoId |-> ins.videoId, amount |-> ins.amount,
            transactionHash |-> ins.transactionHash])

----------------------------------------------------------------------------
(* SynapseService connection *)

IsConnected == synapse # "down"

\* connectWallet: on success every service is set.  The first version keeps
\* the Synapse instance of its constructor and sets the signer before the
\* step that can throw, which leaves isConnected() true without services.
ConnectWallet ==
    /\ \E ok \in BOOLEAN :
          synapse' = IF ok THEN "up"
                     ELSE IF synapseVersion = "balance"
                          THEN (IF synapse = "down" THEN "partial" ELSE synapse)
                          ELSE "down"
    /\ UNCHANGED <<videos, purchases, synapseVersion, routesVersion,
                   creatorWallet, reqs,
                   subsVars, rangeVars, chainVars>>

Disconnect ==
    /\ synapse # "down"
    /\ synapse' = "down"
    /\ UNCHANGED <<videos, purchases, synapseVersion, routesVersion,
                   creatorWallet, reqs,
                   subsVars, rangeVars, chainVars>>

----------------------------------------------------------------------------
(* POST /api/videos *)

\* The handler for a body out of inputs.
CreateVideoFrom(inputs) ==
    /\ \E id \in NewVideoIds \ DOMAIN videos, in \in inputs :
          videos' = [v \in DOMAIN videos \cup {id} |->
                        IF v = id THEN CreateVideoRecord(id, in) ELSE videos[v]]
    /\ UNCHANGED <<purchases, synapse, synapseVersion, routesVersion,
                   creatorWallet, reqs,
                   subsVars, rangeVars, chainVars>>

CreateVideo == CreateVideoFrom(NewVideoInputs)

\* Every combination of pricingType and price the schema lets through: it
\* validates the two columns separately (text, decimal).
PricedVideoInputs ==
    {[price |-> p, pricingType |-> t, creatorId |-> "user1",
      videoUrl |-> "/objects/uploads/new.mp4"] :
        p \in {"0", "5"}, t \in {"free", "payper"}}

CreateVideoAnyPrice == CreateVideoFrom(PricedVideoInputs)

----------------------------------------------------------------------------
(* POST /api/videos/:id/purchase *)

IdleReq ==
    [kind |-> "purchase", pc |-> "new", buyer |-> NULL, videoId |-> NULL, tx |-> NULL,
     method |-> NULL, path |-> NULL, prior |-> 0, status |-> 0,
     body |-> NULL, pid |-> 0, call |-> "none"]

\* !video.price || parseFloat(video.price) <= 0
NotForSale(v) ==
    \/ v.price = NULL
    \/ v.price = ""
    \/ (IsNum(ParseFloat(v.price)) /\ ParseFloat(v.price)[1] <= 0)

\* Which verifier the handler awaits.
VerifyPath(method) ==
    IF method = "usdfc" /\ IsConnected
    THEN CASE synapseVersion = "balance" ->
                 IF synapse = "up" THEN "balance" ELSE "fallback"
           [] synapseVersion = "stub" -> "stub"
           [] OTHER -> "sdk"
    ELSE "ledger"

\* What the awaited external call can answer: flag is the boolean a contract
\* or SDK call returns, balance what getBalanceOf returns, ok = FALSE a
\* rejected call.
Answers(path) ==
    CASE path \in {"ledger", "fallback", "sdk"} ->
             [ok : BOOLEAN, flag : BOOLEAN, balance : {0}]
      [] path = "balance" -> [ok : BOOLEAN, flag : {FALSE}, balance : Balances]
      [] OTHER -> {[ok |-> TRUE, flag |-> FALSE, balance |-> 0]}

\* FilecoinPayService.hasPurchasedVideo: the contract's answer, false on error.
HasPurchasedVideo(ans) == ans.ok /\ ans.flag

\* verifyContentPayment, first version: balance against BigInt(amount).
VerifyByBalance(ans, amount) ==
    /\ ans.ok
    /\ IsNum(BigIntOf(amount))
    /\ ans.balance >= BigIntOf(amount)[1]

\* verifyContentPayment, current version.
VerifyStub(ans, amount) == TRUE

\* verifyContentPayment, SDK-call version.
VerifyBySdk(ans, amount) == ans.ok /\ ans.flag

Verification(path, ans, amount) ==
    CASE path = "balance" -> VerifyByBalance(ans, amount)
      [] path = "stub"    -> VerifyStub(ans, amount)
      [] path = "sdk"     -> VerifyBySdk(ans, amount)
      [] OTHER            -> HasPurchasedVideo(ans)

\* The answer written; of the request's inputs only those the answer or the
\* stored Purchase carries stay on record.
Answer(r, status, body, pid) ==
    [r EXCEPT !.pc = "done", !.path = NULL, !.method = NULL,
              !.tx = IF body = "purchase" THEN r.tx ELSE NULL,
              !.status = status, !.body = body, !.pid = pid]

\* The handler up to the awaited verifier, for a request whose transactionHash
\* is one of refs or absent.
PurchaseRequest(refs) ==
    /\ Len(reqs) < MaxRequests
    /\ \E buyer \in Buyers, vid \in VideoIds, tx \in refs \cup {NULL},
          method \in PaymentMethods :
          LET r == [IdleReq EXCEPT !.buyer = buyer, !.videoId = vid, !.tx = tx,
                                   !.method = method,
                                   !.prior = GetPurchase(buyer, vid)]
          IN reqs' = Append(reqs,
                IF ~HasVideo(vid) THEN Answer(r, 404, "Video not found", 0)
                ELSE IF NotForSale(videos[vid])
                     THEN Answer(r, 400, "Video is not for sale", 0)
                ELSE IF creatorWallet = NULL
                     THEN Answer(r, 500, "Creator wallet not configured", 0)
                ELSE IF tx # NULL
                     THEN [r EXCEPT !.pc = "verifying",
                                    !.path = VerifyPath(method)]
                ELSE Answer(r, 200, "quote", 0))
    /\ UNCHANGED <<videos, purchases, synapse, synapseVersion, routesVersion,
                   creatorWallet,
                   subsVars, rangeVars, chainVars>>

PurchaseStart == PurchaseRequest(TxRefs)

PurchaseStartAnyRef == PurchaseRequest(LedgerRefs)

\* How the awaited external call ended, kept in the log next to the answer:
\* "error" for a rejected call (RPC error, timeout), "answered" for a call
\* that returned, "skipped" when the verifier makes no call.
CallOutcome(path, ans) ==
    CASE path = "stub" -> "skipped"
      [] ~ans.ok       -> "error"
      [] OTHER         -> "answered"

\* The purchases Map after the verifier answered: one insert when verified.
MutPurchasesAfterAlwaysInsert(r, verified) ==
    CreatePurchase([userId |-> r.buyer, videoId |-> r.videoId,
                    amount |-> videos[r.videoId].price,
                    transactionHash |-> r.tx])

PurchasesAfter(r, verified) ==
    IF verified
    THEN CreatePurchase([userId |-> r.buyer, videoId |-> r.videoId,
                         amount |-> videos[r.videoId].price,
                         transactionHash |-> r.tx])
    ELSE purchases

PurchaseComplete(i) ==
    /\ reqs[i].kind = "purchase"
    /\ reqs[i].pc = "verifying"
    /\ \E ans \in Answers(reqs[i].path) :
          LET r == reqs[i]
              price == videos[r.videoId].price
              verified == Verification(r.path, ans, price)
              answered ==
                  IF verified
                  THEN Answer(r, 200, "purchase", Len(purchases'))
                  ELSE Answer(r, 400, "Transaction verification failed", 0)
          IN /\ purchases' = PurchasesAfter(r, verified)
             /\ reqs' = [reqs EXCEPT ![i] =
                   [answered EXCEPT !.call = CallOutcome(r.path, ans)]]
    /\ UNCHANGED <<videos, synapse, synapseVersion, routesVersion,
                   creatorWallet,
                   subsVars, rangeVars, chainVars>>

----------------------------------------------------------------------------
(* POST /api/purchases (legacy endpoint) and PATCH /api/videos/:id/views *)

\* Bodies insertPurchaseSchema accepts.
LegacyPurchaseInputs ==
    [userId : Buyers, videoId : {"video1"}, amount : {"0.01"},
     transactionHash : {NULL}]

LegacyPurchase ==
    /\ Len(reqs) < MaxRequests
    /\ \E in \in LegacyPurchaseInputs :
          /\ purchases' = CreatePurchase(in)
          /\ reqs' = Append(reqs, [kind |-> "legacy", pc |-> "done",
                                   status |-> 201, pid |-> Len(purchases')])
    /\ UNCHANGED <<videos, synapse, synapseVersion, routesVersion,
                   creatorWallet,
                   subsVars, rangeVars, chainVars>>

\* incrementViews: no effect on an unknown id; the route answers 200 anyway.
MutIncrementViewsFromZero(id) ==
    IF HasVideo(id)
    THEN [videos EXCEPT ![id].views = 1]
    ELSE videos

IncrementViews(id) ==
    IF HasVideo(id)
    THEN [videos EXCEPT ![id].views = @ + 1]
    ELSE videos

PatchViews ==
    /\ Len(reqs) < MaxRequests
    /\ \E id \in VideoIds :
          /\ videos' = IncrementViews(id)
          /\ reqs' = Append(reqs, [kind |-> "views", pc |-> "done",
                                   videoId |-> id, found |-> HasVideo(id),
                                   status |-> 200])
    /\ UNCHANGED <<purchases, synapse, synapseVersion, routesVersion,
                   creatorWallet,
                   subsVars, rangeVars, chainVars>>

----------------------------------------------------------------------------
(* MemStorage subscriptions *)

\* Storage calls on subscriptions in one run.
MaxSubOps == 3

Creators == {"user1", "user2"}

\* Bodies insertSubscriptionSchema accepts.
SubscriptionInputs == [userId : Buyers, creatorId : Creators]

\* Array.from(subscriptions.values()).find(... && sub.isActive): the first
\* active row of the pair in insertion order, 0 for undefined.
ActiveRows(userId, creatorId) ==
    {i \in 1..Len(subscriptions) :
        /\ subscriptions[i].userId = userId
        /\ subscriptions[i].creatorId = creatorId
        /\ subscriptions[i].isActive}

GetSubscription(userId, creatorId) ==
    LET hits == ActiveRows(userId, creatorId)
    IN IF hits = {} THEN 0
       ELSE CHOOSE i \in hits : \A j \in hits : i <= j

SubOps == Len(subscriptions) + Len(cancels)

\* createSubscription: a fresh randomUUID key (the row's position) and
\* isActive true whatever the input says; createdAt is the time of the
\* insert, counted in inserts.
CreateSubscription ==
    /\ SubOps < MaxSubOps
    /\ \E in \in SubscriptionInputs :
          subscriptions' = Append(subscriptions,
              [id |-> Len(subscriptions) + 1, userId |-> in.userId,
               creatorId |-> in.creatorId, isActive |-> TRUE,
               createdAt |-> Len(subscriptions) + 1])
    /\ UNCHANGED <<videos, purchases, synapse, synapseVersion, routesVersion,
                   creatorWallet, reqs, cancels, rangeVars, chainVars>>

\* cancelSubscription up to its await: getSubscription has run.
CancelStart ==
    /\ SubOps < MaxSubOps
    /\ \E in \in SubscriptionInputs :
          cancels' = Append(cancels,
              [userId |-> in.userId, creatorId |-> in.creatorId,
               pc |-> "awaiting",
               row |-> GetSubscription(in.userId, in.creatorId)])
    /\ UNCHANGED <<videos, purchases, synapse, synapseVersion, routesVersion,
                   creatorWallet, reqs, subscriptions, rangeVars, chainVars>>

\* The Map after the await of cancelSubscription.
CancelWrite(row) ==
    IF row = 0 THEN subscriptions
    ELSE [subscriptions EXCEPT ![row].isActive = FALSE]

CancelFinish(i) ==
    /\ cancels[i].pc = "awaiting"
    /\ subscriptions' = CancelWrite(cancels[i].row)
    /\ cancels' = [cancels EXCEPT ![i].pc = "done"]
    /\ UNCHANGED <<videos, purchases, synapse, synapseVersion, routesVersion,
                   creatorWallet, reqs, rangeVars, chainVars>>

----------------------------------------------------------------------------
(* Stream range handling (both stream handlers) *)

\* Bytes the content store returns for a piece of the given length.
Content(len) == [i \in 1..len |-> (i - 1) % 251]

\* A Range header "bytes=<first>-<last>": each part is a run of digits <<n>>
\* or the empty string <<>>.  A request without the header has present FALSE.
NoRange == [present |-> FALSE, first |-> <<>>, last |-> <<>>]
RangeOf(first, last) == [present |-> TRUE, first |-> first, last |-> last]

\* parseInt(part, 10): NaN for the empty string.
ParseInt(part) == IF part = <<>> THEN NaN ELSE Num(part[1])

\* ArrayBuffer.prototype.slice / Buffer.slice index: NaN is 0, a negative
\* index counts from the end, everything is clamped to [0, len].
RelativeIndex(x, len) ==
    IF ~IsNum(x) THEN 0
    ELSE IF x[1] < 0 THEN (IF len + x[1] < 0 THEN 0 ELSE len + x[1])
    ELSE IF x[1] > len THEN len ELSE x[1]

MutSliceExclusive(data, begin, end) ==
    SubSeq(data, RelativeIndex(begin, Len(data)) + 1,
                 RelativeIndex(end, Len(data)) - 1)

Slice(data, begin, end) ==
    SubSeq(data, RelativeIndex(begin, Len(data)) + 1,
                 RelativeIndex(end, Len(data)))

\* The response the handler writes once the bytes are retrieved.
StreamResponse(data, range) ==
    LET contentLength == Len(data)
        start == ParseInt(range.first)
        end == IF range.last # <<>> THEN ParseInt(range.last)
               ELSE Num(contentLength - 1)
        both == IsNum(start) /\ IsNum(end)
        chunkSize == IF both THEN Num((end[1] - start[1]) + 1) ELSE NaN
        endPlus1 == IF IsNum(end) THEN Num(end[1] + 1) ELSE NaN
    IN IF range.present
       THEN [status |-> 206,
             contentRange |-> <<start, end, Num(contentLength)>>,
             contentLength |-> chunkSize,
             body |-> Slice(data, start, endPlus1)]
       ELSE [status |-> 200,
             contentRange |-> <<>>,
             contentLength |-> Num(contentLength),
             body |-> data]

----------------------------------------------------------------------------
(* GET /api/videos/:pieceCid/stream *)

PieceCids == {"piece1"}

\* req.query.buyerAddress: a wallet address, or absent.
StreamBuyers == {"0xB1", NULL}

\* Length of the piece the content store holds under PieceCids.
PieceLen == 2

\* Range headers of a stream request.
StreamRanges == {NoRange, RangeOf(<<0>>, <<0>>)}

\* What synapseService.retrieveFile resolves to.
RetrievalResults == {"data", "failed", "empty"}

Refuse(r, status) == [r EXCEPT !.pc = "done", !.status = status]

\* await synapseService.retrieveFile(pieceCid): the first version throws
\* when its storage service was never created.
Retrieve(r) ==
    IF synapse = "partial"
    THEN [r EXCEPT !.pc = "done", !.retrieved = TRUE, !.status = 500]
    ELSE [r EXCEPT !.pc = "retrieving", !.retrieved = TRUE]

\* The handler up to its first await on the content store.
StreamGate(r) ==
    IF routesVersion = "A"
    THEN IF ~IsConnected THEN Refuse(r, 503)
         ELSE IF r.buyer = NULL \/ r.videoId = NULL THEN Refuse(r, 401)
         ELSE IF ~HasVideo(r.videoId) THEN Refuse(r, 404)
         ELSE IF ~AccessGranted(r.buyer, r.videoId) THEN Refuse(r, 403)
         ELSE Retrieve(r)
    ELSE IF ~IsConnected THEN Refuse(r, 503)
         ELSE Retrieve(r)

StreamStart ==
    /\ Len(reqs) < MaxRequests
    /\ \E piece \in PieceCids, vid \in VideoIds \cup {NULL},
          buyer \in StreamBuyers, range \in StreamRanges :
          reqs' = Append(reqs, StreamGate(
                    [kind |-> "stream", pc |-> "new", pieceCid |-> piece,
                     videoId |-> vid, buyer |-> buyer, range |-> range,
                     prior |-> IF vid = NULL \/ buyer = NULL THEN 0
                               ELSE GetPurchase(buyer, vid),
                     up |-> IsConnected, retrieved |-> FALSE,
                     status |-> 0, sent |-> 0]))
    /\ UNCHANGED <<videos, purchases, synapse, synapseVersion, routesVersion,
                   creatorWallet, subsVars, rangeVars, chainVars>>

StreamFinish(i) ==
    /\ reqs[i].kind = "stream"
    /\ reqs[i].pc = "retrieving"
    /\ \E result \in RetrievalResults :
          LET r == reqs[i]
              res == StreamResponse(Content(PieceLen), r.range)
          IN reqs' = [reqs EXCEPT ![i] =
                CASE result = "failed" -> Refuse(r, 404)
                  [] result = "empty" ->
                        Refuse(r, IF routesVersion = "A" THEN 404 ELSE 500)
                  [] OTHER -> [r EXCEPT !.pc = "done", !.status = res.status,
                                        !.sent = Len(res.body)]]
    /\ UNCHANGED <<videos, purchases, synapse, synapseVersion, routesVersion,
                   creatorWallet, subsVars, rangeVars, chainVars>>

----------------------------------------------------------------------------
(* PUT /api/videos/:id/file *)

\* req.body.videoURL values (the signed upload URL of object storage).
VideoURLs == {"https://storage.googleapis.com/bucket/.private/uploads/new.mp4"}

\* ObjectStorageService.normalizeObjectEntityPath: the bucket URL of an
\* upload becomes its /objects/ path; any other string is returned as is.
NormalizeObjectEntityPath(rawPath) ==
    IF rawPath = "https://storage.googleapis.com/bucket/.private/uploads/new.mp4"
    THEN "/objects/uploads/new.mp4"
    ELSE rawPath

\* Successful results of synapseService.uploadFile: the piece and its commP.
UploadResults ==
    {[pieceCid |-> "piece1", commP |-> "commP1"],
     [pieceCid |-> "piece2", commP |-> "commP2"]}

FilcdnUrl(pieceCid) == "/api/videos/" \o pieceCid \o "/stream"

\* filecoinResult.publicURL of the legacy service for the cid it returns.
LegacyPublicURL == "https://gateway.lighthouse.storage/ipfs/cid1"

\* { ...video, ...updates }: the fields of updates replace the video's.
Spread(video, updates) ==
    [k \in DOMAIN video |->
        IF k \in DOMAIN updates THEN updates[k] ELSE video[k]]

\* updateVideo(id, updates): undefined (no write) for an unknown id.
MutUpdateVideoAll(id, updates) ==
    [v \in DOMAIN videos |-> Spread(videos[v], updates)]

UpdateVideo(id, updates) ==
    IF HasVideo(id)
    THEN [videos EXCEPT ![id] = Spread(@, updates)]
    ELSE videos

\* The updates the handler passes after a successful Synapse upload:
\* videoUrl alone in routes version A, videoUrl and filecoinData after it.
SynapseUpdates(synapseResult) ==
    IF routesVersion = "A"
    THEN [videoUrl |-> FilcdnUrl(synapseResult.pieceCid)]
    ELSE [videoUrl |-> FilcdnUrl(synapseResult.pieceCid),
          filecoinData |-> synapseResult]

\* The response after storage.updateVideo.
Updated(r, objectPath) ==
    [r EXCEPT !.pc = "done", !.objectPath = objectPath,
              !.status = IF HasVideo(r.videoId) THEN 200 ELSE 404]

\* Who sends the request.  The handler reads no identity from it; the log
\* keeps the sender for the properties about senders.  NULL is a sender the
\* log does not identify.
Requesters == {"user1", "user2"}

FileRequest(requesters) ==
    /\ Len(reqs) < MaxRequests
    /\ \E id \in VideoIds, url \in VideoURLs \cup {NULL},
          useFilecoin \in BOOLEAN, requester \in requesters :
          LET r == [kind |-> "file", pc |-> "new", videoId |-> id,
                    requester |-> requester,
                    videoURL |-> url,
                    failed |-> FALSE, status |-> 0, objectPath |-> NULL]
              objectPath == NormalizeObjectEntityPath(url)
          IN IF url = NULL
             THEN /\ reqs' = Append(reqs, Refuse(r, 400))
                  /\ videos' = videos
             ELSE IF useFilecoin /\ synapse = "up"
             THEN /\ reqs' = Append(reqs, [r EXCEPT !.pc = "uploading"])
                  /\ videos' = videos
             ELSE IF useFilecoin /\ synapse = "down"
             THEN /\ reqs' = Append(reqs, [r EXCEPT !.pc = "legacy"])
                  /\ videos' = videos
             ELSE \* no Filecoin storage asked for, or uploadFile threw
                  /\ reqs' = Append(reqs,
                        Updated([r EXCEPT !.failed = useFilecoin], objectPath))
                  /\ videos' = UpdateVideo(id, [videoUrl |-> objectPath])
    /\ UNCHANGED <<purchases, synapse, synapseVersion, routesVersion,
                   creatorWallet, subsVars, rangeVars, chainVars>>

FileStart == FileRequest({NULL})

FileStartAs == FileRequest(Requesters)

FileComplete(i) ==
    /\ reqs[i].kind = "file"
    /\ reqs[i].pc \in {"uploading", "legacy"}
    /\ \E ok \in BOOLEAN, synapseResult \in UploadResults :
          LET r == reqs[i]
              objectPath ==
                  IF ~ok THEN NormalizeObjectEntityPath(r.videoURL)
                  ELSE IF r.pc = "uploading"
                  THEN FilcdnUrl(synapseResult.pieceCid)
                  ELSE LegacyPublicURL
              updates ==
                  IF ok /\ r.pc = "uploading"
                  THEN SynapseUpdates(synapseResult)
                  ELSE [videoUrl |-> objectPath]
          IN /\ videos' = UpdateVideo(r.videoId, updates)
             /\ reqs' = [reqs EXCEPT ![i] =
                            Updated([r EXCEPT !.failed = ~ok], objectPath)]
    /\ UNCHANGED <<purchases, synapse, synapseVersion, routesVersion,
                   creatorWallet, subsVars, rangeVars, chainVars>>

----------------------------------------------------------------------------
(* POST /api/videos/upload-synapse (routes version A) *)

UploadSynapseStart ==
    /\ routesVersion = "A"
    /\ Len(reqs) < MaxRequests
    /\ \E file \in BOOLEAN, fields \in BOOLEAN :
          LET r == [kind |-> "upload", pc |-> "new", videoId |-> NULL,
                    requester |-> NULL,
                    videoURL |-> NULL,
                    failed |-> FALSE, status |-> 0, objectPath |-> NULL]
          IN reqs' = Append(reqs,
                CASE ~file -> Refuse(r, 400)
                  [] ~fields -> Refuse(r, 400)
                  [] ~IsConnected -> Refuse(r, 503)
                  [] OTHER -> [r EXCEPT !.pc = "uploading"])
    /\ UNCHANGED <<videos, purchases, synapse, synapseVersion, routesVersion,
                   creatorWallet, subsVars, rangeVars, chainVars>>

\* The video object the handler hands to storage.createVideo; its own id
\* and filecoinHash are the ones createVideo overrides.
SynapseVideo(synapseResult) ==
    [videoUrl |-> FilcdnUrl(synapseResult.pieceCid), price |-> "0",
     pricingType |-> "", creatorId |-> NULL, filecoinData |-> synapseResult]

UploadSynapseComplete(i) ==
    /\ reqs[i].kind = "upload"
    /\ reqs[i].pc = "uploading"
    /\ \/ /\ reqs' = [reqs EXCEPT ![i] =
                        Refuse([reqs[i] EXCEPT !.failed = TRUE], 500)]
          /\ videos' = videos
       \/ \E id \in NewVideoIds \ DOMAIN videos,
             synapseResult \in UploadResults :
             /\ videos' = [v \in DOMAIN videos \cup {id} |->
                              IF v = id
                              THEN CreateVideoRecord(id,
                                        SynapseVideo(synapseResult))
                              ELSE videos[v]]
             /\ reqs' = [reqs EXCEPT ![i] =
                            [@ EXCEPT !.pc = "done", !.status = 200,
                                      !.videoId = id,
                                      !.objectPath = videos'[id].videoUrl]]
    /\ UNCHANGED <<purchases, synapse, synapseVersion, routesVersion,
                   creatorWallet, subsVars, rangeVars, chainVars>>

----------------------------------------------------------------------------
(* GET /objects/:objectPath *)

\* req.path values: the locators of the seeded uploads, and a path no asset
\* uses.
ObjectPaths ==
    {SeedVideos[v].videoUrl : v \in DOMAIN SeedVideos}
        \cup {"/objects/uploads/none.mp4"}

\* ObjectStorageService.getObjectEntityFile: the stored file of a path, or
\* ObjectNotFoundError thrown for a path that holds none.
ObjectFileResults == {"file", "notfound"}

\* The handler: the file of the path is sent, 404 when the lookup throws.
\* It reads req.path and nothing else of the request; the log keeps the
\* sender.
GetObject ==
    /\ Len(reqs) < MaxRequests
    /\ \E path \in ObjectPaths, buyer \in StreamBuyers,
          objectFile \in ObjectFileResults :
          reqs' = Append(reqs,
                    [kind |-> "object", pc |-> "done", path |-> path,
                     buyer |-> buyer,
                     status |-> IF objectFile = "file" THEN 200 ELSE 404])
    /\ UNCHANGED <<videos, purchases, synapse, synapseVersion, routesVersion,
                   creatorWallet, subsVars, rangeVars, chainVars>>

----------------------------------------------------------------------------
(* Awaited external calls *)

\* Requests suspended at an await on the ledger or the content store.
Awaiting(r) ==
    \/ r.kind = "purchase" /\ r.pc = "verifying" /\ r.path # "stub"
    \/ r.kind = "stream" /\ r.pc = "retrieving"
    \/ r.kind \in {"file", "upload"} /\ r.pc \in {"uploading", "legacy"}

\* The promise a handler awaits never settles.  No handler races its await
\* against a timer, so the request stays suspended.
CallHangs(i) ==
    /\ Awaiting(reqs[i])
    /\ reqs' = [reqs EXCEPT ![i].pc = "hung"]
    /\ UNCHANGED <<videos, purchases, synapse, synapseVersion, routesVersion,
                   creatorWallet, subsVars, rangeVars, chainVars>>

----------------------------------------------------------------------------
(* Stream range handling applied to one retrieved piece *)

\* Lengths of the retrieved piece: 1..MaxLen and two lengths from 1000 up.
MaxLen == 3

Lengths == (1..MaxLen) \cup {1000, 1000 + MaxLen}

RangeParts == {<<>>, <<999>>, <<1000>>} \cup {<<n>> : n \in 0..MaxLen}

RangeHeaders == {NoRange} \cup {RangeOf(a, b) : a, b \in RangeParts}

RangeIdle ==
    [status |-> 0, contentRange |-> <<>>, contentLength |-> NaN, body |-> <<>>]

ServeRange ==
    /\ rangeRes = RangeIdle
    /\ rangeRes' = StreamResponse(Content(rangeReq.len), rangeReq.range)
    /\ UNCHANGED <<rangeReq, serverVars, chainVars>>

----------------------------------------------------------------------------
(* contract StreamBoxPayment *)

\* uint256 arithmetic is checked (Solidity 0.8): a result above the largest
\* word reverts the call.  Words are 16 bits wide here.
UintMax == 2^16 - 1

ZeroAddress == "0x0"
ContractAddress == "0x5B"
Accounts == {"0xC1", "0xB1"}

\* Arguments of the calls.
ChainVideoIds == {"video1", ""}
ListPrices == {0, 1, 33, 700}
MsgValues == {0, 1, 33, 40, 700}

\* Balance every account starts with.
StartBalance == 800

\* Contract calls in one run, and the last block timestamp.
MaxCalls == 3
MaxBlockTime == 2

NoCall ==
    [fn |-> "none", sender |-> ZeroAddress, videoId |-> "", value |-> 0,
     ok |-> FALSE]

Called(fn, sender, videoId, value, ok) ==
    [fn |-> fn, sender |-> sender, videoId |-> videoId, value |-> value,
     ok |-> ok]

\* A reverted call changes nothing on chain.
Revert(call) ==
    /\ lastCall' = call
    /\ totals' = [totals EXCEPT !.calls = @ + 1]
    /\ UNCHANGED <<videoCreators, videoPrices, creatorEarnings,
                   chainPurchases, balances, blockTime>>

ListVideo ==
    /\ totals.calls < MaxCalls
    /\ \E sender \in Accounts, videoId \in ChainVideoIds, price \in ListPrices :
          IF videoId = "" \/ price <= 0
          THEN Revert(Called("listVideo", sender, videoId, 0, FALSE))
          ELSE /\ videoCreators' = [videoCreators EXCEPT ![videoId] = sender]
               /\ videoPrices' = [videoPrices EXCEPT ![videoId] = price]
               /\ lastCall' = Called("listVideo", sender, videoId, 0, TRUE)
               /\ totals' = [totals EXCEPT !.calls = @ + 1]
               /\ UNCHANGED <<creatorEarnings, chainPurchases, balances,
                              blockTime>>
    /\ UNCHANGED <<serverVars, rangeVars>>

\* (price * 95) / 100
MutCreatorAmountRoundUp(price) == (price * 95 + 99) \div 100

CreatorAmount(price) == (price * 95) \div 100

\* payable(to).call{value: amount}("") from the contract's balance.
Send(bal, to, amount) ==
    [bal EXCEPT ![ContractAddress] = @ - amount, ![to] = @ + amount]

PurchaseVideo ==
    /\ totals.calls < MaxCalls
    /\ \E sender \in Accounts, videoId \in ChainVideoIds, value \in MsgValues,
          success \in BOOLEAN, refundSuccess \in BOOLEAN :
          LET call == Called("purchaseVideo", sender, videoId, value, FALSE)
              creator == videoCreators[videoId]
              price == videoPrices[videoId]
              creatorAmount == CreatorAmount(price)
              platformFee == price - creatorAmount
              received == [balances EXCEPT ![sender] = @ - value,
                                           ![ContractAddress] = @ + value]
              paid == Send(received, creator, creatorAmount)
              refunded == IF value > price
                          THEN Send(paid, sender, value - price)
                          ELSE paid
          IN /\ balances[sender] >= value
             /\ IF \/ videoId = ""
                   \/ creator = ZeroAddress
                   \/ price <= 0
                   \/ value < price
                   \/ price * 95 > UintMax
                   \/ creatorEarnings[creator] + creatorAmount > UintMax
                   \/ ~success
                   \/ (value > price /\ ~refundSuccess)
                THEN Revert(call)
                ELSE /\ chainPurchases' =
                          {q \in chainPurchases :
                              ~(/\ q.buyer = sender
                                /\ q.videoId = videoId
                                /\ q.timestamp = blockTime)}
                          \cup {[buyer |-> sender, creator |-> creator,
                                 videoId |-> videoId, amount |-> price,
                                 timestamp |-> blockTime, completed |-> TRUE]}
                     /\ creatorEarnings' =
                          [creatorEarnings EXCEPT ![creator] = @ + creatorAmount]
                     /\ balances' = refunded
                     /\ lastCall' = [call EXCEPT !.ok = TRUE]
                     /\ totals' =
                          [calls |-> totals.calls + 1,
                           value |-> totals.value + value,
                           payout |-> totals.payout + creatorAmount,
                           refund |-> totals.refund + (value - price),
                           fee |-> totals.fee + platformFee]
                     /\ UNCHANGED <<videoCreators, videoPrices, blockTime>>
    /\ UNCHANGED <<serverVars, rangeVars>>

\* hasPurchased(buyer, videoId) evaluated in the current block: the key is
\* keccak256(buyer, videoId, block.timestamp), a missing entry reads as
\* completed = false.
HasPurchased(buyer, videoId) ==
    \E q \in chainPurchases :
        /\ q.buyer = buyer
        /\ q.videoId = videoId
        /\ q.timestamp = blockTime
        /\ q.completed

\* A later block.
Tick ==
    /\ blockTime < MaxBlockTime
    /\ blockTime' = blockTime + 1
    /\ UNCHANGED <<videoCreators, videoPrices, creatorEarnings,
                   chainPurchases, balances, lastCall, totals>>
    /\ UNCHANGED <<serverVars, rangeVars>>

----------------------------------------------------------------------------

\* The server after construction.
InitServer ==
    /\ videos = SeedVideos
    /\ purchases = <<>>
    /\ synapse = "down"
    /\ reqs = <<>>
    /\ subscriptions = <<>>
    /\ cancels = <<>>

\* No piece retrieved yet.
InitRangeIdle ==
    /\ rangeReq = [len |-> 1, range |-> NoRange]
    /\ rangeRes = RangeIdle

\* The contract after deployment.
InitChain ==
    /\ videoCreators = [v \in ChainVideoIds |-> ZeroAddress]
    /\ videoPrices = [v \in ChainVideoIds |-> 0]
    /\ creatorEarnings = [a \in Accounts \cup {ZeroAddress} |-> 0]
    /\ chainPurchases = {}
    /\ balances = [a \in Accounts \cup {ContractAddress} |->
                      IF a = ContractAddress THEN 0 ELSE StartBalance]
    /\ blockTime = 1
    /\ lastCall = NoCall
    /\ totals = [calls |-> 0, value |-> 0, payout |-> 0, refund |-> 0,
                 fee |-> 0]

Init ==
    /\ InitServer
    /\ creatorWallet \in {NULL, PlatformAddress}
    /\ synapseVersion \in {"balance", "stub", "sdk"}
    /\ routesVersion = "A"
    /\ InitRangeIdle
    /\ InitChain

Next ==
    \/ ConnectWallet
    \/ Disconnect
    \/ PurchaseStart
    \/ LegacyPurchase
    \/ \E i \in 1..Len(reqs) : PurchaseComplete(i)

Spec == Init /\ [][Next]_vars

\* The streaming gate, under either routes version.
InitStream ==
    /\ InitServer
    /\ creatorWallet = PlatformAddress
    /\ synapseVersion \in {"balance", "stub"}
    /\ routesVersion \in {"A", "C"}
    /\ InitRangeIdle
    /\ InitChain

NextStream ==
    \/ ConnectWallet
    \/ Disconnect
    \/ LegacyPurchase
    \/ StreamStart
    \/ \E i \in 1..Len(reqs) : StreamFinish(i)

SpecStream == InitStream /\ [][NextStream]_vars

\* The upload registrar (the same handler in every routes version that
\* talks to the Synapse service).
InitFile ==
    /\ InitServer
    /\ creatorWallet = PlatformAddress
    /\ synapseVersion \in {"balance", "stub"}
    /\ routesVersion \in {"A", "C"}
    /\ InitRangeIdle
    /\ InitChain

NextFile ==
    \/ ConnectWallet
    \/ CreateVideo
    \/ PatchViews
    \/ FileStart
    \/ \E i \in 1..Len(reqs) : FileComplete(i)
    \/ UploadSynapseStart
    \/ \E i \in 1..Len(reqs) : UploadSynapseComplete(i)

SpecFile == InitFile /\ [][NextFile]_vars

\* PUT /api/videos/:id/file with the senders of the requests recorded.
InitOwner ==
    /\ InitServer
    /\ creatorWallet = PlatformAddress
    /\ synapseVersion = "stub"
    /\ routesVersion \in {"A", "C"}
    /\ InitRangeIdle
    /\ InitChain

NextOwner ==
    \/ ConnectWallet
    \/ FileStartAs
    \/ \E i \in 1..Len(reqs) : FileComplete(i)

SpecOwner == InitOwner /\ [][NextOwner]_vars

\* MemStorage subscriptions on their own.
InitSubs ==
    /\ InitServer
    /\ creatorWallet = PlatformAddress
    /\ synapseVersion = "stub"
    /\ routesVersion = "A"
    /\ InitRangeIdle
    /\ InitChain

NextSubs ==
    \/ CreateSubscription
    \/ CancelStart
    \/ \E i \in 1..Len(cancels) : CancelFinish(i)

SpecSubs == InitSubs /\ [][NextSubs]_vars

\* The streaming gate of lines 117-211 over seeded and newly created assets.
InitGate ==
    /\ InitServer
    /\ creatorWallet = PlatformAddress
    /\ synapseVersion = "stub"
    /\ routesVersion = "A"
    /\ InitRangeIdle
    /\ InitChain

NextGate ==
    \/ ConnectWallet
    \/ CreateVideo
    \/ LegacyPurchase
    \/ StreamStart
    \/ \E i \in 1..Len(reqs) : StreamFinish(i)

SpecGate == InitGate /\ [][NextGate]_vars

\* The purchase handler over every kind of transaction reference.
InitVerify ==
    /\ InitServer
    /\ creatorWallet = PlatformAddress
    /\ synapseVersion = "stub"
    /\ routesVersion = "A"
    /\ InitRangeIdle
    /\ InitChain

NextVerify ==
    \/ ConnectWallet
    \/ PurchaseStartAnyRef
    \/ \E i \in 1..Len(reqs) : PurchaseComplete(i)

SpecVerify == InitVerify /\ [][NextVerify]_vars

\* The three handlers that await external calls, with calls that may never
\* return.  A call that does settle resumes its handler (the event loop runs
\* the continuation), which is the fairness stated.
InitWait ==
    /\ InitServer
    /\ creatorWallet = PlatformAddress
    /\ synapseVersion = "stub"
    /\ routesVersion = "A"
    /\ InitRangeIdle
    /\ InitChain

NextWait ==
    \/ ConnectWallet
    \/ PurchaseStart
    \/ \E i \in 1..Len(reqs) : PurchaseComplete(i)
    \/ StreamStart
    \/ \E i \in 1..Len(reqs) : StreamFinish(i)
    \/ FileStart
    \/ \E i \in 1..Len(reqs) : FileComplete(i)
    \/ \E i \in 1..Len(reqs) : CallHangs(i)

SpecWait ==
    /\ InitWait
    /\ [][NextWait]_vars
    /\ WF_vars(\E i \in 1..Len(reqs) : PurchaseComplete(i))
    /\ WF_vars(\E i \in 1..Len(reqs) : StreamFinish(i))
    /\ WF_vars(\E i \in 1..Len(reqs) : FileComplete(i))

\* Assets created with any pricing, and the purchase handler on them.
InitPrice ==
    /\ InitServer
    /\ creatorWallet = PlatformAddress
    /\ synapseVersion = "stub"
    /\ routesVersion = "A"
    /\ InitRangeIdle
    /\ InitChain

NextPrice ==
    \/ ConnectWallet
    \/ CreateVideoAnyPrice
    \/ PurchaseStart
    \/ \E i \in 1..Len(reqs) : PurchaseComplete(i)

SpecPrice == InitPrice /\ [][NextPrice]_vars

\* The access-controlled stream handler next to the upload registrar that
\* gives assets their piece locators.
InitPiece ==
    /\ InitServer
    /\ creatorWallet = PlatformAddress
    /\ synapseVersion = "stub"
    /\ routesVersion = "A"
    /\ InitRangeIdle
    /\ InitChain

NextPiece ==
    \/ ConnectWallet
    \/ FileStart
    \/ \E i \in 1..Len(reqs) : FileComplete(i)
    \/ StreamStart
    \/ \E i \in 1..Len(reqs) : StreamFinish(i)

SpecPiece == InitPiece /\ [][NextPiece]_vars

\* Every route that returns content bytes: the stream handler that answers
\* the stream path (the first registered) and GET /objects.
InitBytes ==
    /\ InitServer
    /\ creatorWallet = PlatformAddress
    /\ synapseVersion = "stub"
    /\ routesVersion = "A"
    /\ InitRangeIdle
    /\ InitChain

NextBytes ==
    \/ ConnectWallet
    \/ LegacyPurchase
    \/ StreamStart
    \/ \E i \in 1..Len(reqs) : StreamFinish(i)
    \/ GetObject

SpecBytes == InitBytes /\ [][NextBytes]_vars

\* Range handling over every piece length and Range header of the bounds.
InitRange ==
    /\ InitServer
    /\ creatorWallet = PlatformAddress
    /\ synapseVersion = "stub"
    /\ routesVersion \in {"A", "C"}
    /\ rangeReq \in [len : Lengths, range : RangeHeaders]
    /\ rangeRes = RangeIdle
    /\ InitChain

NextRange == ServeRange

SpecRange == InitRange /\ [][NextRange]_vars

\* The payment contract on its own.
InitContract ==
    /\ InitServer
    /\ creatorWallet = PlatformAddress
    /\ synapseVersion = "stub"
    /\ routesVersion = "A"
    /\ InitRangeIdle
    /\ InitChain

NextContract ==
    \/ ListVideo
    \/ PurchaseVideo
    \/ Tick

SpecContract == InitContract /\ [][NextContract]_vars

----------------------------------------------------------------------------
(* Properties of the purchase handler *)

Confirmed(i) ==
    /\ reqs[i].kind = "purchase"
    /\ reqs[i].body = "purchase"

\* C1 (At-most-one-purchase under concurrency): confirmations of one
\* (buyer, asset) pair with the same transaction reference that arrived
\* before any Purchase of the pair existed and that all passed verification
\* leave exactly one Purchase row of the pair, and every caller's response
\* references that row.
C1_AtMostOnePurchase ==
    \A i, j \in 1..Len(reqs) :
        (/\ i < j
         /\ Confirmed(i) /\ Confirmed(j)
         /\ reqs[i].buyer = reqs[j].buyer
         /\ reqs[i].videoId = reqs[j].videoId
         /\ reqs[i].tx = reqs[j].tx
         /\ reqs[i].prior = 0 /\ reqs[j].prior = 0)
        => /\ Cardinality(PurchaseRows(reqs[i].buyer, reqs[i].videoId)) = 1
           /\ reqs[i].pid = reqs[j].pid

\* C2 (Idempotent resubmission): a confirmation that arrives when a Purchase
\* of the pair with the same transaction reference already exists is answered
\* with that Purchase (same id and amount) and inserts no row.
C2_IdempotentResubmission ==
    \A j \in 1..Len(reqs) :
        (/\ Confirmed(j)
         /\ reqs[j].prior # 0
         /\ purchases[reqs[j].prior].transactionHash = reqs[j].tx)
        => /\ reqs[j].pid = reqs[j].prior
           /\ Cardinality(PurchaseRows(reqs[j].buyer, reqs[j].videoId)) = 1

\* C5 (Amount floor enforcement): no confirmation succeeds when the ledger
\* transaction named by the submitted reference transferred less than the
\* asset's price, on any verification path.
C5_AmountFloor ==
    \A i \in 1..Len(reqs) :
        Confirmed(i) =>
            LedgerTx(reqs[i].tx).amount
                >= ParseFloat(videos[reqs[i].videoId].price)[1]

\* C6 (Rejected confirmation leaves state unchanged): the step in which a
\* confirmation is answered with a verification failure leaves the purchases
\* collection as it was, and a buyer without access to the pay-per-view asset
\* before that step has none after it.
C6_RejectedLeavesState ==
    [][\A i \in 1..Len(reqs) :
         (/\ reqs[i].kind = "purchase"
          /\ reqs[i].pc = "verifying"
          /\ reqs'[i].pc = "done"
          /\ reqs'[i].status = 400)
         => /\ purchases' = purchases
            /\ (~AccessGranted(reqs[i].buyer, reqs[i].videoId)
                  => ~AccessGranted(reqs[i].buyer, reqs[i].videoId)')]_vars

C6_Witness ==
    \E i \in 1..Len(reqs) :
        /\ reqs[i].kind = "purchase"
        /\ reqs[i].body = "Transaction verification failed"
        /\ videos[reqs[i].videoId].pricingType = "payper"
        /\ ~AccessGranted(reqs[i].buyer, reqs[i].videoId)

\* C7 (Entitlements are permanent): once a confirmation has succeeded, every
\* later step keeps its Purchase row unchanged (buyer, asset, amount,
\* transaction reference) and the stream access check for that buyer and
\* asset grants access.
C7_EntitlementsPermanent ==
    [][\A i \in 1..Len(reqs) :
         Confirmed(i) =>
            LET k == reqs[i].pid
            IN /\ k <= Len(purchases')
               /\ purchases'[k] = purchases[k]
               /\ purchases'[k].userId = reqs[i].buyer
               /\ purchases'[k].videoId = reqs[i].videoId
               /\ purchases'[k].transactionHash = reqs[i].tx
               /\ AccessGranted(reqs[i].buyer, reqs[i].videoId)']_vars

C7_Witness ==
    \E i, j \in 1..Len(reqs) :
        /\ i < j
        /\ Confirmed(i)
        /\ reqs[j].pc = "done"
        /\ reqs[j].kind \in {"purchase", "legacy"}
        /\ reqs[j].pid > reqs[i].pid
        /\ purchases[reqs[i].pid].userId = reqs[i].buyer
        /\ AccessGranted(reqs[i].buyer, reqs[i].videoId)

----------------------------------------------------------------------------
(* Properties of the streaming gate *)

\* A stream request that names an existing asset and a buyer and arrived
\* while the Synapse service was connected.
GateReached(i) ==
    /\ reqs[i].kind = "stream"
    /\ reqs[i].up
    /\ reqs[i].buyer # NULL
    /\ reqs[i].videoId # NULL
    /\ HasVideo(reqs[i].videoId)

\* C3 (No-pay-no-access): a stream request for a pay-per-view asset with a
\* price above 0, made by a buyer with no recorded Purchase of it, never
\* invokes the content store's retrieveFile and is answered 403.
C3_NoPayNoAccess ==
    \A i \in 1..Len(reqs) :
        (/\ GateReached(i)
         /\ videos[reqs[i].videoId].pricingType = "payper"
         /\ ParseFloat(videos[reqs[i].videoId].price)[1] > 0
         /\ reqs[i].prior = 0)
        => /\ ~reqs[i].retrieved
           /\ reqs[i].pc = "done"
           /\ reqs[i].status = 403

\* C4 (Free-always-access): a stream request for an asset of mode free is
\* granted access (it goes on to the content store and is not answered 403)
\* for any buyer id, one without any stored Purchase included.
C4_FreeAlwaysAccess ==
    \A i \in 1..Len(reqs) :
        (/\ GateReached(i)
         /\ videos[reqs[i].videoId].pricingType = "free")
        => /\ reqs[i].retrieved
           /\ reqs[i].status # 403

C4_Witness ==
    \E i \in 1..Len(reqs) :
        /\ GateReached(i)
        /\ routesVersion = "A"
        /\ videos[reqs[i].videoId].pricingType = "free"
        /\ \A k \in 1..Len(purchases) : purchases[k].userId # reqs[i].buyer
        /\ reqs[i].retrieved
        /\ reqs[i].status \in {200, 206}

----------------------------------------------------------------------------
(* Properties of the upload registrar *)

\* Request i is answered in this step after its content-store submission
\* failed (success false, or a throw).
FailedNow(i) ==
    /\ i \in 1..Len(reqs')
    /\ reqs'[i].kind = "file"
    /\ reqs'[i].pc = "done"
    /\ reqs'[i].failed
    /\ (i > Len(reqs) \/ reqs[i].pc # "done")

----------------------------------------------------------------------------
(* Properties of the stream range handling *)

\* C9 (Range correctness): without a Range header the response is 200 with
\* all L bytes; for 'bytes=s-e' with 0 <= s <= e < L (so for bytes=0-999 on
\* L >= 1000) the response is 206, its body is exactly bytes s..e,
\* Content-Length is e-s+1 and Content-Range is 'bytes s-e/L'.
C9_RangeCorrectness ==
    rangeRes.status # 0 =>
        LET L == rangeReq.len
            h == rangeReq.range
        IN /\ ~h.present =>
                /\ rangeRes.status = 200
                /\ Len(rangeRes.body) = L
                /\ \A k \in 1..L : rangeRes.body[k] = Content(L)[k]
           /\ (/\ h.present
               /\ h.first # <<>> /\ h.last # <<>>
               /\ h.first[1] <= h.last[1]
               /\ h.last[1] < L) =>
                LET s == h.first[1]
                    e == h.last[1]
                IN /\ rangeRes.status = 206
                   /\ Len(rangeRes.body) = e - s + 1
                   /\ \A k \in 1..(e - s + 1) :
                         rangeRes.body[k] = Content(L)[s + k]
                   /\ rangeRes.contentLength = Num(e - s + 1)
                   /\ rangeRes.contentRange = <<Num(s), Num(e), Num(L)>>

C9_Witness ==
    /\ rangeRes.status = 206
    /\ rangeReq.len > 1000
    /\ rangeReq.range = RangeOf(<<0>>, <<999>>)
    /\ Len(rangeRes.body) = 1000
    /\ rangeRes.contentRange = <<Num(0), Num(999), Num(rangeReq.len)>>

----------------------------------------------------------------------------
(* Properties of the payment contract *)

\* C10 (Revenue split): a successful purchaseVideo(videoId) call with
\* msg.value >= price sends the creator floor(price*95/100), grows
\* creatorEarnings[creator] by the same amount, refunds the buyer
\* msg.value - price and leaves price - floor(price*95/100) in the contract;
\* over any sequence of purchases payouts + refunds + retained fees equal the
\* sum of msg.value.
C10_RevenueSplit ==
    /\ [][(/\ totals'.calls = totals.calls + 1
           /\ lastCall'.fn = "purchaseVideo"
           /\ lastCall'.ok)
          => LET buyer == lastCall'.sender
                 value == lastCall'.value
                 creator == videoCreators[lastCall'.videoId]
                 price == videoPrices[lastCall'.videoId]
                 share == (price * 95) \div 100
             IN /\ value >= price
                /\ creatorEarnings'[creator] = creatorEarnings[creator] + share
                /\ balances'[ContractAddress]
                      = balances[ContractAddress] + (price - share)
                /\ IF creator = buyer
                   THEN balances'[buyer] = balances[buyer] - value + share
                                              + (value - price)
                   ELSE /\ balances'[creator] = balances[creator] + share
                        /\ balances'[buyer] = balances[buyer] - value
                                                 + (value - price)
                /\ totals'.payout = totals.payout + share
                /\ totals'.refund = totals.refund + (value - price)]_vars
    /\ [](/\ totals.payout + totals.refund + balances[ContractAddress]
               = totals.value
          /\ balances[ContractAddress] = totals.fee)

C10_Witness ==
    /\ lastCall.fn = "purchaseVideo"
    /\ lastCall.ok
    /\ lastCall.value > videoPrices[lastCall.videoId]
    /\ (videoPrices[lastCall.videoId] * 95) % 100 # 0
    /\ totals.fee > 0
    /\ totals.payout > 0

----------------------------------------------------------------------------
(* Properties of the subscriptions *)

\* C11 (Cancel deactivates, never deletes): no step removes a subscription
\* record or changes its id, pair or creation time; the step in which
\* cancelSubscription(user, creator) returns (no other call having touched
\* the pair since its lookup) leaves the record it found with active = false
\* and leaves getSubscription(user, creator) without an active subscription,
\* also when createSubscription ran more than once for the pair.
C11_CancelDeactivates ==
    [][/\ Len(subscriptions') >= Len(subscriptions)
       /\ \A k \in 1..Len(subscriptions) :
             /\ subscriptions'[k].id = subscriptions[k].id
             /\ subscriptions'[k].userId = subscriptions[k].userId
             /\ subscriptions'[k].creatorId = subscriptions[k].creatorId
             /\ subscriptions'[k].createdAt = subscriptions[k].createdAt
       /\ \A i \in 1..Len(cancels) :
             (/\ cancels[i].pc = "awaiting" /\ cancels'[i].pc = "done"
              /\ GetSubscription(cancels[i].userId, cancels[i].creatorId)
                    = cancels[i].row)
             => /\ cancels[i].row # 0
                    => ~subscriptions'[cancels[i].row].isActive
                /\ GetSubscription(cancels[i].userId,
                                   cancels[i].creatorId)' = 0]_vars

\* C12 (Subscription-gated access): a stream request for an asset of mode
\* subscription that reaches the access check is granted (goes on to the
\* content store) exactly when the requester has a Purchase of the asset or
\* an active Subscription to its creator; a requester with neither is denied.
C12_SubscriptionGated ==
    \A i \in 1..Len(reqs) :
        (/\ GateReached(i)
         /\ ~(reqs[i].status = 404 /\ ~reqs[i].retrieved)
         /\ videos[reqs[i].videoId].pricingType = "subscription")
        => (reqs[i].retrieved
              <=> \/ reqs[i].prior # 0
                  \/ GetSubscription(reqs[i].buyer,
                                     videos[reqs[i].videoId].creatorId) # 0)

----------------------------------------------------------------------------
(* Properties of the purchase handler: what is verified and recorded *)

\* The transaction a reference names satisfies the ledger conditions: it is
\* confirmed and was sent to the configured recipient.
SettledToRecipient(t) ==
    /\ LedgerTx(t).found
    /\ LedgerTx(t).confirmed
    /\ LedgerTx(t).to = creatorWallet

\* C13 (Default-path verification depends on the submitted transaction): a
\* confirmation on the default path records a Purchase only if the ledger
\* transaction named by its transactionHash is confirmed and was sent to the
\* configured recipient; so of two confirmations that differ only in the
\* reference, the one naming a non-existent transaction does not succeed.
C13_DefaultPathChecksTransaction ==
    [][\A i \in 1..Len(reqs) :
         (/\ reqs[i].kind = "purchase"
          /\ reqs[i].pc = "verifying"
          /\ reqs[i].path = "ledger"
          /\ reqs'[i].pc = "done"
          /\ Len(purchases') > Len(purchases))
         => SettledToRecipient(reqs[i].tx)]_vars

\* C14 (Recorded amount is the verified amount): the Purchase stored by a
\* successful confirmation whose transaction is confirmed, was sent to the
\* recipient and covers the price carries the amount that transaction
\* transferred and the submitted transaction reference.
C14_RecordedAmountIsVerified ==
    \A i \in 1..Len(reqs) :
        (/\ Confirmed(i)
         /\ SettledToRecipient(reqs[i].tx)
         /\ LedgerTx(reqs[i].tx).amount
               >= ParseFloat(videos[reqs[i].videoId].price)[1])
        => /\ purchases[reqs[i].pid].transactionHash = reqs[i].tx
           /\ ParseFloat(purchases[reqs[i].pid].amount)
                 = Num(LedgerTx(reqs[i].tx).amount)

----------------------------------------------------------------------------
(* Properties of the asset record *)

\* C15 (Locator and proof together): no state exists in which an asset's
\* videoUrl points at a stored piece while the proof of that piece (its
\* piece CID with commP in filecoinData, or its commP in filecoinHash) is
\* absent from or different in the asset record.
C15_LocatorAndProofTogether ==
    \A v \in DOMAIN videos, u \in UploadResults :
        videos[v].videoUrl = FilcdnUrl(u.pieceCid)
        => \/ videos[v].filecoinData = u
           \/ videos[v].filecoinHash = u.commP

\* C16 (Only the creator replaces the file): a PUT /api/videos/:id/file
\* request changes the videoUrl of the asset it names only when its sender
\* is the asset's creator.
C16_OnlyCreatorChangesLocator ==
    [][\A i \in 1..Len(reqs') :
         (/\ reqs'[i].kind = "file"
          /\ reqs'[i].pc = "done"
          /\ (i > Len(reqs) \/ reqs[i].pc # "done")
          /\ HasVideo(reqs'[i].videoId)
          /\ videos'[reqs'[i].videoId].videoUrl
                # videos[reqs'[i].videoId].videoUrl)
         => reqs'[i].requester = videos[reqs'[i].videoId].creatorId]_vars

----------------------------------------------------------------------------
(* Further properties of the stream handler *)

\* C17 (Range bounds are clamped): in every 206 response to 'bytes=s-e' or
\* 'bytes=s-' Content-Length is the number of bytes of the body; and for 'bytes=s-e' with 0 <= s < L and
\* e >= L, or with no end given, Content-Range reports the end L-1 and the
\* body has at most L-s bytes.
C17_RangeClamped ==
    (rangeRes.status = 206 /\ rangeReq.range.first # <<>>) =>
        LET L == rangeReq.len
            h == rangeReq.range
        IN /\ rangeRes.contentLength = Num(Len(rangeRes.body))
           /\ (/\ h.first[1] < L
               /\ (h.last = <<>> \/ h.last[1] >= L)) =>
                /\ rangeRes.contentRange[2] = Num(L - 1)
                /\ Len(rangeRes.body) <= L - h.first[1]

\* C18 (A served stream counts as a view): a granted stream request that
\* starts returning bytes raises the views of the asset it names by exactly
\* one; a stream request that is denied or fails leaves every counter as it
\* was.
C18_StreamCountsView ==
    [][\A i \in 1..Len(reqs') :
         (/\ reqs'[i].kind = "stream"
          /\ reqs'[i].pc = "done"
          /\ (i > Len(reqs) \/ reqs[i].pc # "done"))
         => IF reqs'[i].status \in {200, 206}
            THEN /\ HasVideo(reqs'[i].videoId)
                 /\ videos'[reqs'[i].videoId].views
                       = videos[reqs'[i].videoId].views + 1
            ELSE videos' = videos]_vars

\* The views of an asset when it entered the store: the seeded value, or the
\* 0 createVideo gives.
InitialViews(v) ==
    IF v \in DOMAIN SeedVideos THEN SeedVideos[v].views ELSE 0

ViewsRequests(v) ==
    {i \in 1..Len(reqs) :
        /\ reqs[i].kind = "views"
        /\ reqs[i].videoId = v
        /\ reqs[i].found}

LacksEntitlement(i) ==
    /\ reqs[i].kind = "stream"
    /\ reqs[i].pc = "done"
    /\ reqs[i].videoId \in DOMAIN SeedVideos
    /\ \/ reqs[i].buyer = NULL
       \/ /\ RequiresPurchase(videos[reqs[i].videoId])
          /\ reqs[i].prior = 0

\* C20 (Content unavailability is not an entitlement error): a stream
\* request whose retrieval was started and failed is answered 404 or 5xx,
\* never 401 or 403; and a requester lacking entitlement is answered with
\* the denial (401 or 403), never with 404 or 5xx.
C20_UnavailableIsNotDenial ==
    \A i \in 1..Len(reqs) :
        /\ (/\ reqs[i].kind = "stream"
            /\ reqs[i].pc = "done"
            /\ reqs[i].retrieved
            /\ reqs[i].status \notin {200, 206})
           => reqs[i].status \in {404} \cup (500..599)
        /\ LacksEntitlement(i) => reqs[i].status \in {401, 403}

----------------------------------------------------------------------------
(* Properties of the verification outcome *)

\* The kind of a response: its status and its error text.
ResponseKind(r) == <<r.status, r.body>>

\* C21 (Transient ledger errors are distinguishable from mismatches): the
\* response to a purchase confirmation whose ledger lookup failed with an
\* RPC error or timeout differs in kind from the response to one whose
\* ledger lookup answered and did not verify the payment.
C21_TransientDistinguishable ==
    \A i, j \in 1..Len(reqs) :
        (/\ reqs[i].kind = "purchase" /\ reqs[j].kind = "purchase"
         /\ reqs[i].pc = "done" /\ reqs[j].pc = "done"
         /\ reqs[i].call = "error"
         /\ reqs[j].call = "answered" /\ reqs[j].pid = 0)
        => ResponseKind(reqs[i]) # ResponseKind(reqs[j])

\* C22 (No fabricated success): every purchase confirmation that recorded a
\* Purchase awaited a ledger or token-service call that returned an answer;
\* none was recorded where the call failed or no call was made.
C22_NoFabricatedSuccess ==
    \A i \in 1..Len(reqs) :
        Confirmed(i) => reqs[i].call = "answered"

\* C23 (Bounded waiting on external calls): every purchase confirmation,
\* file registration and stream request is eventually answered, also when
\* the ledger or content-store call it awaits never returns.
C23_BoundedWaiting ==
    \A i \in 1..MaxRequests :
        [](Len(reqs) >= i => <>(Len(reqs) >= i /\ reqs[i].pc = "done"))

----------------------------------------------------------------------------
(* Properties of the asset collection *)

\* The price of an asset as a number, a missing price counting as 0.
PriceOf(v) == ParseFloat(IF v.price \in {NULL, ""} THEN "0" ELSE v.price)

\* C24 (Asset price invariant): in every state every pay-per-view asset has
\* a price above 0, and every free asset either has price 0 or is treated as
\* free by the handlers: not for sale in the purchase handler and requiring
\* no purchase in the stream handler.
C24_AssetPriceInvariant ==
    \A id \in DOMAIN videos :
        LET v == videos[id]
        IN /\ v.pricingType = "payper"
                => (IsNum(PriceOf(v)) /\ PriceOf(v)[1] > 0)
           /\ v.pricingType = "free"
                => \/ PriceOf(v) = Num(0)
                   \/ (NotForSale(v) /\ ~RequiresPurchase(v))

----------------------------------------------------------------------------
(* Further properties of the payment contract *)

\* C25 (On-chain purchase lookup is keyed by buyer and asset only): once
\* purchaseVideo(videoId) by a buyer has succeeded, hasPurchased(buyer,
\* videoId) is true in every later block.
C25_LookupIgnoresTime ==
    \A q \in chainPurchases : HasPurchased(q.buyer, q.videoId)

\* C30 (A listing's creator cannot be replaced): once a video is listed, a
\* call changes videoCreators[videoId] or videoPrices[videoId] only if its
\* sender is the address that listed it.
C30_ListingOwnerFixed ==
    [][\A v \in ChainVideoIds :
         (/\ videoCreators[v] # ZeroAddress
          /\ \/ videoCreators'[v] # videoCreators[v]
             \/ videoPrices'[v] # videoPrices[v])
         => lastCall'.sender = videoCreators[v]]_vars

----------------------------------------------------------------------------
(* Further properties of the purchases collection *)

\* C26 (Every stored Purchase was verified): every row of the purchases
\* collection was inserted by a request whose payment verification was
\* positive for the row's buyer and asset.
C26_EveryPurchaseVerified ==
    \A k \in 1..Len(purchases) :
        \E i \in 1..Len(reqs) :
            /\ Confirmed(i)
            /\ reqs[i].pid = k
            /\ reqs[i].buyer = purchases[k].userId
            /\ reqs[i].videoId = purchases[k].videoId

----------------------------------------------------------------------------
(* Further properties of the streaming gate *)

\* Request i is answered with content bytes in this step.
ServedNow(i) ==
    /\ i \in 1..Len(reqs)
    /\ reqs[i].kind = "stream"
    /\ reqs[i].pc = "retrieving"
    /\ reqs'[i].status \in {200, 206}

\* C27 (Served bytes belong to the checked asset): when the stream handler
\* returns the bytes of a piece, every pay-per-view asset with a price above
\* 0 whose locator holds that piece is one the requester has a Purchase of:
\* naming another asset in videoId does not yield that asset's bytes.
C27_ServedPieceIsChecked ==
    [][\A i \in 1..MaxRequests :
         ServedNow(i)
         => \A b \in DOMAIN videos :
               (/\ videos[b].videoUrl = FilcdnUrl(reqs[i].pieceCid)
                /\ RequiresPurchase(videos[b]))
               => GetPurchase(reqs[i].buyer, b) # 0]_vars

\* The assets whose content a request that returned bytes has sent: the one
\* named by videoId for the stream handler, those stored under the path for
\* GET /objects.
SentAssets(r) ==
    CASE r.kind = "stream" /\ r.status \in {200, 206} ->
             {r.videoId} \cap DOMAIN videos
      [] r.kind = "object" /\ r.status = 200 ->
             {b \in DOMAIN videos : videos[b].videoUrl = r.path}
      [] OTHER -> {}

\* C28 (No ungated byte path): no route returns the content bytes of a
\* pay-per-view asset with a price above 0 to a requester for whom no
\* Purchase of the asset is recorded.
C28_NoUngatedBytes ==
    \A i \in 1..Len(reqs) :
        \A b \in SentAssets(reqs[i]) :
            RequiresPurchase(videos[b])
            => (reqs[i].buyer # NULL /\ GetPurchase(reqs[i].buyer, b) # 0)

\* C29 (A transaction reference backs at most one entitlement): no two
\* Purchase rows for different buyers or different assets carry the same
\* transaction reference.
C29_ReferenceBacksOnePurchase ==
    \A k, l \in 1..Len(purchases) :
        (/\ purchases[k].transactionHash # NULL
         /\ purchases[k].transactionHash = purchases[l].transactionHash)
        => /\ purchases[k].userId = purchases[l].userId
           /\ purchases[k].videoId = purchases[l].videoId

====
